---------------------------- MODULE Spec2Model ----------------------------
(***************************************************************************)
(* Model of src/redisClient.js: the Redis client options (retry_strategy)  *)
(* and the Express middleware set (forceDomainSSL, unless,                 *)
(* middlewareSecurity, skipMap, whitelistIp).                              *)
(*                                                                         *)
(* JavaScript strings that the code concatenates, splits or matches are    *)
(* sequences of one-character strings; Undefined is the value `undefined`. *)
(* Values that are only compared (NODE_ENV, x-forwarded-proto, error.code) *)
(* are TLA+ strings, with Unset for `undefined`.                           *)
(***************************************************************************)
EXTENDS Integers, Sequences, FiniteSets, TLC

VARIABLES
    options,        \* argument handed to retry_strategy (last consultation)
    result,         \* value returned by retry_strategy (last consultation)
    attempts,       \* reconnect loop: attempt counter
    retry_totaltime,\* reconnect loop: sum of the delays waited so far
    status,         \* reconnect loop: "down" | "waiting" | "ended"
    delays,         \* reconnect loop: the delays returned so far
    env,            \* process.env values read at module load
    req,            \* the request
    res,            \* the response
    nextCalls,      \* number of times next() was called
    logged,         \* number of logger.info calls
    handler         \* the middleware that ran ("none" before it runs)

retryVars == <<options, result>>
loopVars  == <<attempts, retry_totaltime, status, delays>>
mwVars    == <<env, req, res, nextCalls, logged, handler>>
vars      == <<options, result, attempts, retry_totaltime, status, delays, env, req, res, nextCalls, logged, handler>>

-----------------------------------------------------------------------------
(* Bounds *)

MaxAttempt == 12
MaxHostLen == 1
MaxListLen == 3
MaxIpLen == 1
MaxPathLen == 4

-----------------------------------------------------------------------------
(* JavaScript values *)

Undefined == <<"undefined">>
Unset == "<unset>"

Falsy(v) == v = Undefined \/ v = <<>>

Min(a, b) == IF a < b THEN a ELSE b

\* all sequences over alphabet of length at most n
RECURSIVE StringsUpTo(_, _)
StringsUpTo(alphabet, n) ==
    IF n = 0 THEN {<<>>}
    ELSE LET shorter == StringsUpTo(alphabet, n - 1)
         IN  shorter \cup {s \o <<c>> : s \in shorter, c \in alphabet}

-----------------------------------------------------------------------------
(* retry_strategy *)

OneHour == 1000 * 60 * 60
MaxTries == 10
DelayStep == 100
DelayCap == 3000

NoError == [truthy |-> FALSE, code |-> Unset]
ErrorCodes == {"ECONNREFUSED", "ETIMEDOUT", "ECONNRESET", "ENOTFOUND", "EPIPE"}
NamedErrors == {[truthy |-> TRUE, code |-> c] : c \in ErrorCodes \cup {Unset}}
Errors == {NoError} \cup NamedErrors

FatalRefused == [kind |-> "fatal", message |-> "The server refused the connection", delay |-> 0]
FatalExhausted == [kind |-> "fatal", message |-> "Retry time exhausted", delay |-> 0]
Stop == [kind |-> "stop", message |-> "", delay |-> 0]
Delay(ms) == [kind |-> "delay", message |-> "", delay |-> ms]
NotCalled == [kind |-> "none", message |-> "", delay |-> 0]

\* variant: the attempt limit is reached one attempt early
retry_strategy_early(o) ==
    IF o.error.truthy /\ o.error.code = "ECONNREFUSED" THEN FatalRefused
    ELSE IF o.total_retry_time > OneHour THEN FatalExhausted
    ELSE IF o.attempt >= MaxTries THEN Stop
    ELSE Delay(Min(o.attempt * DelayStep, DelayCap))

\* variant: the attempt limit is reached one attempt late
retry_strategy_late(o) ==
    IF o.error.truthy /\ o.error.code = "ECONNREFUSED" THEN FatalRefused
    ELSE IF o.total_retry_time > OneHour THEN FatalExhausted
    ELSE IF o.attempt > MaxTries + 1 THEN Stop
    ELSE Delay(Min(o.attempt * DelayStep, DelayCap))

\* variant: the attempt count is checked before the error
retry_strategy_countfirst(o) ==
    IF o.attempt > MaxTries THEN Stop
    ELSE IF o.error.truthy /\ o.error.code = "ECONNREFUSED" THEN FatalRefused
    ELSE IF o.total_retry_time > OneHour THEN FatalExhausted
    ELSE Delay(Min(o.attempt * DelayStep, DelayCap))

\* variant: one hour exactly already exhausts the retry time
retry_strategy_inclusive(o) ==
    IF o.error.truthy /\ o.error.code = "ECONNREFUSED" THEN FatalRefused
    ELSE IF o.total_retry_time >= OneHour THEN FatalExhausted
    ELSE IF o.attempt > MaxTries THEN Stop
    ELSE Delay(Min(o.attempt * DelayStep, DelayCap))

retry_strategy(o) ==
    IF o.error.truthy /\ o.error.code = "ECONNREFUSED" THEN FatalRefused
    ELSE IF o.total_retry_time > OneHour THEN FatalExhausted
    ELSE IF o.attempt > MaxTries THEN Stop
    ELSE Delay(Min(o.attempt * DelayStep, DelayCap))


RetryTimes == {0, 100, 5500, OneHour - 1, OneHour, OneHour + 1, 2 * OneHour}

NoOptions == [attempt |-> 0, error |-> NoError, total_retry_time |-> 0]

RetryIdle == options = NoOptions /\ result = NotCalled
LoopIdle == attempts = 0 /\ retry_totaltime = 0 /\ status = "idle" /\ delays = <<>>

\* one call of retry_strategy on arbitrary options
CallRetryStrategy ==
    /\ result = NotCalled
    /\ result' = retry_strategy(options)
    /\ UNCHANGED <<options, loopVars, mwVars>>

-----------------------------------------------------------------------------
(* The client library's reconnect loop, which consults retry_strategy:     *)
(* attempt starts at 1, each elapsed delay is added to total_retry_time    *)
(* and increments attempt; a non-numeric decision ends the client.         *)

ConnectionGone(err) ==
    /\ status = "down"
    /\ LET o == [attempt |-> attempts, error |-> err,
                 total_retry_time |-> retry_totaltime]
           d == retry_strategy(o)
       IN  /\ options' = o
           /\ result' = d
           /\ IF d.kind = "delay"
              THEN status' = "waiting" /\ delays' = Append(delays, d.delay)
              ELSE status' = "ended" /\ delays' = delays
    /\ UNCHANGED <<attempts, retry_totaltime, mwVars>>

RetryConnection ==
    /\ status = "waiting"
    /\ retry_totaltime' = retry_totaltime + result.delay
    /\ attempts' = attempts + 1
    /\ status' = "down"
    /\ UNCHANGED <<options, result, delays, mwVars>>


-----------------------------------------------------------------------------
(* Middleware: environment, request, response *)

Https == <<"h", "t", "t", "p", "s", ":", "/", "/">>

\* string conversion inside a template literal
ToStr(v) == IF v = Undefined THEN <<"u", "n", "d", "e", "f", "i", "n", "e", "d">> ELSE v

NewResponse == [sent |-> 0, status |-> 200, body |-> Unset,
                location |-> Undefined, headers |-> {}]

\* the observable effects of one middleware invocation
Fresh == [res |-> NewResponse, nextCalls |-> 0, logged |-> 0]

CallNext(st) == [st EXCEPT !.nextCalls = @ + 1]

\* res.redirect(code, url)
Redirect(st, code, url) ==
    [st EXCEPT !.res.sent = @ + 1, !.res.status = code,
               !.res.location = url, !.res.body = "Found. Redirecting"]

\* res.send(body)
Send(st, body) == [st EXCEPT !.res.sent = @ + 1, !.res.body = body]

\* res.status(code)
SetStatus(st, code) == [st EXCEPT !.res.status = code]

\* res.set(name, value)
SetHeader(st, name, value) == [st EXCEPT !.res.headers = @ \cup {<<name, value>>}]

\* variant: the public domain is not required to be non-empty
isAppDomainOnProduction_nopublic(e, r) ==
    /\ e.APP_DOMAIN # <<>>
    /\ r.host = e.APP_DOMAIN

isAppDomainOnProduction(e, r) ==
    /\ e.APP_DOMAIN # <<>>
    /\ e.PUBLIC_DOMAIN # <<>>
    /\ r.host = e.APP_DOMAIN

isNonSecurePublicDomainOnProduction(e, r) ==
    /\ e.PUBLIC_DOMAIN # <<>>
    /\ r.host = e.PUBLIC_DOMAIN
    /\ r.proto # "https"

\* variant: the insecure-public-domain rule is tried first
forceDomainSSL_swapped(e, r, st) ==
    CASE e.NODE_ENV = "local" -> CallNext(st)
      [] e.NODE_ENV \in {"review", "staging"} ->
            IF r.proto # "https"
            THEN Redirect(st, 302, Https \o ToStr(r.host) \o r.originalUrl)
            ELSE CallNext(st)
      [] e.NODE_ENV = "production" ->
            IF isNonSecurePublicDomainOnProduction(e, r)
            THEN Redirect([st EXCEPT !.logged = @ + 1], 302,
                          Https \o ToStr(r.host) \o r.originalUrl)
            ELSE IF isAppDomainOnProduction(e, r)
            THEN Redirect(st, 302, Https \o ToStr(e.PUBLIC_DOMAIN) \o r.originalUrl)
            ELSE CallNext(st)
      [] OTHER -> CallNext(st)

\* variant: the 'local' case does nothing
forceDomainSSL_localtodo(e, r, st) ==
    CASE e.NODE_ENV = "local" -> st
      [] e.NODE_ENV \in {"review", "staging"} ->
            IF r.proto # "https"
            THEN Redirect(st, 302, Https \o ToStr(r.host) \o r.originalUrl)
            ELSE CallNext(st)
      [] e.NODE_ENV = "production" ->
            IF isAppDomainOnProduction(e, r)
            THEN Redirect(st, 302, Https \o ToStr(e.PUBLIC_DOMAIN) \o r.originalUrl)
            ELSE IF isNonSecurePublicDomainOnProduction(e, r)
            THEN Redirect([st EXCEPT !.logged = @ + 1], 302,
                          Https \o ToStr(r.host) \o r.originalUrl)
            ELSE CallNext(st)
      [] OTHER -> CallNext(st)

forceDomainSSL(e, r, st) ==
    CASE e.NODE_ENV = "local" -> CallNext(st)
      [] e.NODE_ENV \in {"review", "staging"} ->
            IF r.proto # "https"
            THEN Redirect(st, 302, Https \o ToStr(r.host) \o r.originalUrl)
            ELSE CallNext(st)
      [] e.NODE_ENV = "production" ->
            IF isAppDomainOnProduction(e, r)
            THEN Redirect(st, 302, Https \o ToStr(e.PUBLIC_DOMAIN) \o r.originalUrl)
            ELSE IF isNonSecurePublicDomainOnProduction(e, r)
            THEN Redirect([st EXCEPT !.logged = @ + 1], 302,
                          Https \o ToStr(r.host) \o r.originalUrl)
            ELSE CallNext(st)
      [] OTHER -> CallNext(st)

middlewareSecurity(e, r, st) ==
    CallNext(SetHeader(st, "X-XSS-Protection", "1; mode=block"))

\* case folding of the /i flag, on the letters of the pattern
Lower(c) == CASE c = "M" -> "m" [] c = "A" -> "a" [] c = "P" -> "p" [] OTHER -> c

\* variant: the match is case-sensitive
MatchesDotMap_cs(path) ==
    /\ Len(path) >= 4
    /\ SubSeq(path, Len(path) - 3, Len(path)) = <<".", "m", "a", "p">>

\* path.match(/\.map$/i) is not null
MatchesDotMap(path) ==
    /\ Len(path) >= 4
    /\ LET n == Len(path)
       IN  /\ path[n - 3] = "."
           /\ Lower(path[n - 2]) = "m"
           /\ Lower(path[n - 1]) = "a"
           /\ Lower(path[n]) = "p"

skipMap(e, r, st) ==
    IF MatchesDotMap(r.path) THEN Send(st, "") ELSE CallNext(st)

\* String.prototype.split(',')
RECURSIVE Split(_)
Split(s) ==
    IF \A i \in 1..Len(s) : s[i] # ","
    THEN <<s>>
    ELSE LET k == CHOOSE i \in 1..Len(s) :
                    s[i] = "," /\ \A j \in 1..(i - 1) : s[j] # ","
         IN  <<SubSeq(s, 1, k - 1)>> \o Split(SubSeq(s, k + 1, Len(s)))

\* Array.prototype.includes
Includes(arr, v) == \E i \in 1..Len(arr) : arr[i] = v

\* variant: the whitelist string is searched without being split
whitelistIp_substring(e, r, st) ==
    IF e.WHITELIST_IP = <<>> THEN CallNext(st)
    ELSE LET request_ip == IF Falsy(r.xff) THEN r.ip ELSE r.xff
             w == e.WHITELIST_IP
         IN  IF \E i \in 1..(Len(w) + 1), j \in 0..Len(w) : SubSeq(w, i, j) = request_ip
             THEN CallNext(st)
             ELSE Send(SetStatus(st, 403), "Forbidden: Access is denied.")

whitelistIp(e, r, st) ==
    IF e.WHITELIST_IP = <<>> THEN CallNext(st)
    ELSE LET request_ip == IF Falsy(r.xff) THEN r.ip ELSE r.xff
         IN  IF Includes(Split(e.WHITELIST_IP), request_ip)
             THEN CallNext(st)
             ELSE Send(SetStatus(st, 403), "Forbidden: Access is denied.")

Middlewares == {"forceDomainSSL", "middlewareSecurity", "skipMap", "whitelistIp"}

Run(m, e, r, st) ==
    CASE m = "forceDomainSSL" -> forceDomainSSL(e, r, st)
      [] m = "middlewareSecurity" -> middlewareSecurity(e, r, st)
      [] m = "skipMap" -> skipMap(e, r, st)
      [] m = "whitelistIp" -> whitelistIp(e, r, st)

\* variant: the wrapped middleware also runs on an excluded path
unless_both(m, paths, e, r, st) ==
    LET pathCheck == \E p \in paths : p = r.path
    IN  IF pathCheck THEN Run(m, e, r, CallNext(st)) ELSE Run(m, e, r, st)

\* unless(middleware, ...paths)(req, res, next)
unless(m, paths, e, r, st) ==
    LET pathCheck == \E p \in paths : p = r.path
    IN  IF pathCheck THEN CallNext(st) ELSE Run(m, e, r, st)


-----------------------------------------------------------------------------
(* Inputs *)

HostChars == {"a", "p"}
IpChars == {"1", "2", ","}
PathChars == {".", "m", "M", "a", "p"}

Modes == {Unset, "local", "review", "staging", "production", "test"}
Protos == {Unset, "http", "https"}
DomainValues == {Undefined} \cup StringsUpTo(HostChars, MaxHostLen)
IpValues == {Undefined} \cup StringsUpTo(IpChars, MaxIpLen)
Paths == {<<"/">> \o s : s \in StringsUpTo(PathChars, MaxPathLen)}
Queries == {<<>>, <<"?", "q">>}
ExclusionPaths == {<<"/">>, <<"/", "m">>}

DefaultEnv == [NODE_ENV |-> Unset, APP_DOMAIN |-> Undefined,
               PUBLIC_DOMAIN |-> Undefined, WHITELIST_IP |-> <<>>]

DefaultReq == [host |-> <<"a">>, proto |-> "https", path |-> <<"/">>,
               originalUrl |-> <<"/">>, xff |-> Undefined, ip |-> <<"1">>]

\* environments and requests that exercise forceDomainSSL
SSLEnvs == {[DefaultEnv EXCEPT !.NODE_ENV = m, !.APP_DOMAIN = a, !.PUBLIC_DOMAIN = p] :
                m \in Modes, a \in DomainValues, p \in DomainValues}
SSLReqs == {[DefaultReq EXCEPT !.host = h, !.proto = x, !.originalUrl = @ \o q] :
                h \in DomainValues, x \in Protos, q \in Queries}

\* environments and requests that exercise whitelistIp
WhitelistEnvs == {[DefaultEnv EXCEPT !.WHITELIST_IP = w] :
                      w \in StringsUpTo(IpChars, MaxListLen)}
WhitelistReqs == {[DefaultReq EXCEPT !.xff = f, !.ip = i] :
                      f \in IpValues, i \in IpValues}

\* requests that exercise skipMap and unless
MapEnvs == {[DefaultEnv EXCEPT !.NODE_ENV = m, !.WHITELIST_IP = w] :
                m \in {Unset, "production"}, w \in {<<>>, <<"2">>}}
MapReqs == {[DefaultReq EXCEPT !.path = p, !.originalUrl = p] : p \in Paths}

NoHandler == [name |-> "none", inner |-> "none", paths |-> {}]

MwIdle ==
    /\ env = DefaultEnv /\ req = DefaultReq /\ res = NewResponse
    /\ nextCalls = 0 /\ logged = 0 /\ handler = NoHandler

MwStart ==
    /\ \/ env \in SSLEnvs /\ req \in SSLReqs
       \/ env \in WhitelistEnvs /\ req \in WhitelistReqs
       \/ env \in MapEnvs /\ req \in MapReqs
    /\ res = NewResponse /\ nextCalls = 0 /\ logged = 0 /\ handler = NoHandler

-----------------------------------------------------------------------------
(* Actions: one invocation of a middleware on the request *)

Apply(h, st) ==
    /\ handler = NoHandler
    /\ handler' = h
    /\ res' = st.res
    /\ nextCalls' = st.nextCalls
    /\ logged' = st.logged
    /\ UNCHANGED <<env, req, retryVars, loopVars>>

ForceDomainSSL ==
    Apply([NoHandler EXCEPT !.name = "forceDomainSSL"], forceDomainSSL(env, req, Fresh))

MiddlewareSecurity ==
    Apply([NoHandler EXCEPT !.name = "middlewareSecurity"], middlewareSecurity(env, req, Fresh))

SkipMap ==
    Apply([NoHandler EXCEPT !.name = "skipMap"], skipMap(env, req, Fresh))

WhitelistIp ==
    Apply([NoHandler EXCEPT !.name = "whitelistIp"], whitelistIp(env, req, Fresh))

Unless(m, paths) ==
    Apply([name |-> "unless", inner |-> m, paths |-> paths],
          unless(m, paths, env, req, Fresh))

-----------------------------------------------------------------------------
(* Specifications *)

\* retry_strategy as a function of its argument
InitRetry ==
    /\ options \in [attempt : 0..MaxAttempt, error : Errors, total_retry_time : RetryTimes]
    /\ result = NotCalled
    /\ LoopIdle /\ MwIdle

NextRetry == CallRetryStrategy

SpecRetry == InitRetry /\ [][NextRetry]_vars

\* the reconnect loop of a client whose connection keeps failing
InitLoop ==
    /\ RetryIdle
    /\ attempts = 1 /\ retry_totaltime = 0 /\ status = "down" /\ delays = <<>>
    /\ MwIdle

NextLoop ==
    \/ \E err \in Errors : ConnectionGone(err)
    \/ RetryConnection

SpecLoop == InitLoop /\ [][NextLoop]_vars

\* the library's timer fires and the failed connection is reported
FairSpecLoop == SpecLoop /\ WF_vars(NextLoop)

\* the middleware set
InitMw == RetryIdle /\ LoopIdle /\ MwStart

NextMw ==
    \/ ForceDomainSSL
    \/ MiddlewareSecurity
    \/ SkipMap
    \/ WhitelistIp
    \/ \E m \in Middlewares, paths \in SUBSET ExclusionPaths : Unless(m, paths)

SpecMw == InitMw /\ [][NextMw]_vars

Init == InitRetry \/ InitLoop \/ InitMw
Next == NextRetry \/ NextLoop \/ NextMw
Spec == Init /\ [][Next]_vars


-----------------------------------------------------------------------------
(* Properties of retry_strategy (SpecRetry) *)

Called == result # NotCalled
Refused(err) == err.truthy /\ err.code = "ECONNREFUSED"

\* C1: for attempts 1..10, with an error that is not a refused connection
\* and total_retry_time at most 3,600,000 ms, the decision is the delay
\* min(attempt*100, 3000); the delays do not decrease with the attempt count
\* and never exceed 3000 ms.
C1_LinearBackoff ==
    (/\ Called
     /\ options.attempt \in 1..10
     /\ ~Refused(options.error)
     /\ options.total_retry_time <= 3600000)
    => /\ result.kind = "delay"
       /\ result.delay = Min(options.attempt * 100, 3000)
       /\ result.delay <= 3000
       /\ \A a \in 1..options.attempt :
             LET earlier == retry_strategy([options EXCEPT !.attempt = a])
             IN  earlier.kind = "delay" /\ earlier.delay <= result.delay

C1_Witness ==
    /\ Called /\ options.attempt = 10 /\ options.error.truthy
    /\ options.total_retry_time = 3600000 /\ result.delay = 1000

\* C2 as stated: for attempt 11 the decision is the silent stop for every
\* error value, a refused connection included.
C2_StopAtElevenAnyError ==
    (Called /\ options.attempt = 11) => result = Stop

\* C2 amended: for attempt 11 the decision is the silent stop for every
\* error value other than a refused connection, provided total_retry_time is
\* at most 3,600,000 ms; otherwise it is a fatal error.
C2_StopAtEleven ==
    (Called /\ options.attempt = 11)
    => IF ~Refused(options.error) /\ options.total_retry_time <= 3600000
       THEN result = Stop
       ELSE result.kind = "fatal"

C2_Witness ==
    /\ Called /\ options.attempt = 11 /\ options.error.truthy
    /\ options.error.code = "ETIMEDOUT" /\ result = Stop

\* C3: with a refused connection the decision is the refused-connection
\* fatal error for every attempt count and every total_retry_time, never a
\* delay, a stop or the retry-time error.
C3_RefusedIsFatal ==
    (Called /\ Refused(options.error))
    => /\ result.kind = "fatal"
       /\ result.message = "The server refused the connection"

C3_Witness ==
    /\ Called /\ Refused(options.error) /\ options.attempt > 10
    /\ options.total_retry_time > 3600000 /\ result.kind = "fatal"

\* C4: with total_retry_time above 3,600,000 ms the decision is a fatal error
\* whatever the attempt count (the retry-time error unless the connection was
\* refused); at exactly 3,600,000 ms the retry-time error is not returned.
C4_RetryTimeExhausted ==
    /\ (Called /\ options.total_retry_time > 3600000)
       => /\ result.kind = "fatal"
          /\ ~Refused(options.error) => result.message = "Retry time exhausted"
    /\ (Called /\ options.total_retry_time = 3600000)
       => /\ result.message # "Retry time exhausted"
          /\ ~Refused(options.error) => result.kind # "fatal"

C4_Witness ==
    /\ Called /\ options.total_retry_time > 3600000 /\ options.attempt > 10
    /\ ~Refused(options.error) /\ result.message = "Retry time exhausted"

-----------------------------------------------------------------------------
(* Properties of the reconnect loop (FairSpecLoop) *)

LoopInv ==
    /\ Len(delays) <= 10
    /\ \A i \in 1..Len(delays) : delays[i] = i * 100 /\ delays[i] < 3000
    /\ result.message # "Retry time exhausted"
    /\ (Called /\ Refused(options.error)) => status = "ended"
    /\ status = "ended" =>
          \/ Refused(options.error) /\ result.kind = "fatal"
          \/ /\ ~Refused(options.error) /\ result = Stop
             /\ options.attempt = 11
             /\ delays = [i \in 1..10 |-> i * 100]

\* C10: the reconnect loop terminates; without a refused connection it gets
\* the delays 100, 200, ..., 1000 and then the silent stop at the 11th
\* consultation, never the 3000 ms cap nor the retry-time error; a refused
\* connection ends it at that consultation; nothing happens after the end.
C10_ReconnectTerminates ==
    /\ []LoopInv
    /\ [][status = "ended" => UNCHANGED vars]_vars
    /\ <>(status = "ended")

C10_Witness ==
    status = "ended" /\ result = Stop /\ Len(delays) = 10 /\ retry_totaltime = 5500

-----------------------------------------------------------------------------
(* Properties of the middleware (SpecMw) *)

Ran(name) == handler.name = name
PassedThrough == nextCalls = 1 /\ res = NewResponse
Configured(v) == v # Undefined /\ v # <<>>

RedirectedTo(url) ==
    /\ res.sent = 1 /\ res.status = 302 /\ res.location = url
    /\ nextCalls = 0

\* C5 as stated: in production, host = app domain and a non-empty public
\* domain give a 302 to https://{public-domain}{original-path}, without next.
C5_AppDomainRedirectAnyAppDomain ==
    (/\ Ran("forceDomainSSL") /\ env.NODE_ENV = "production"
     /\ req.host = env.APP_DOMAIN /\ Configured(env.PUBLIC_DOMAIN))
    => RedirectedTo(Https \o env.PUBLIC_DOMAIN \o req.originalUrl)

\* C5 amended: in production, a host equal to a non-empty app domain, with a
\* non-empty public domain, gives a 302 to
\* https://{public-domain}{original-path} without next, HTTPS or not; the
\* app-domain rule wins over the insecure-public-domain rule (nothing logged).
C5_AppDomainRedirect ==
    (/\ Ran("forceDomainSSL") /\ env.NODE_ENV = "production"
     /\ req.host = env.APP_DOMAIN /\ Configured(env.APP_DOMAIN)
     /\ Configured(env.PUBLIC_DOMAIN))
    => /\ RedirectedTo(Https \o env.PUBLIC_DOMAIN \o req.originalUrl)
       /\ logged = 0

C5_Witness ==
    /\ Ran("forceDomainSSL") /\ env.NODE_ENV = "production"
    /\ req.host = env.APP_DOMAIN /\ env.APP_DOMAIN = env.PUBLIC_DOMAIN
    /\ Configured(env.APP_DOMAIN) /\ req.proto = "http"
    /\ req.originalUrl = <<"/", "?", "q">>
    /\ res.status = 302


\* C8 as stated: in production with PUBLIC_DOMAIN and/or APP_DOMAIN empty,
\* forceDomainSSL passes every request through.
C8_EmptyDomainPassesThrough ==
    (/\ Ran("forceDomainSSL") /\ env.NODE_ENV = "production"
     /\ (env.PUBLIC_DOMAIN = <<>> \/ env.APP_DOMAIN = <<>>))
    => PassedThrough

\* C8 amended: in production with PUBLIC_DOMAIN empty (APP_DOMAIN empty or
\* not), forceDomainSSL passes every request through; with only APP_DOMAIN
\* empty it still redirects the non-HTTPS requests to the public domain, to
\* https://{host}{original-path}, and passes every other request through.
C8_EmptyPublicDomainPassesThrough ==
    (Ran("forceDomainSSL") /\ env.NODE_ENV = "production")
    => /\ env.PUBLIC_DOMAIN = <<>> => PassedThrough
       /\ (env.APP_DOMAIN = <<>> /\ env.PUBLIC_DOMAIN # <<>>)
          => IF req.host = env.PUBLIC_DOMAIN /\ req.proto # "https"
             THEN RedirectedTo(Https \o ToStr(req.host) \o req.originalUrl)
             ELSE PassedThrough

C8_Witness ==
    /\ Ran("forceDomainSSL") /\ env.NODE_ENV = "production"
    /\ env.PUBLIC_DOMAIN = <<>> /\ Configured(env.APP_DOMAIN)
    /\ req.host = env.APP_DOMAIN /\ req.proto = "http"
    /\ nextCalls = 1

\* the entries of a comma-separated list: its maximal comma-free pieces
Entries(w) ==
    {SubSeq(w, i, j) : <<i, j>> \in
        {x \in (1..(Len(w) + 1)) \X (0..Len(w)) :
            /\ x[2] >= x[1] - 1
            /\ \A k \in x[1]..x[2] : w[k] # ","
            /\ (x[1] = 1 \/ w[x[1] - 1] = ",")
            /\ (x[2] = Len(w) \/ w[x[2] + 1] = ",")}}

Forbidden ==
    /\ res.sent = 1 /\ res.status = 403
    /\ res.body = "Forbidden: Access is denied." /\ nextCalls = 0

\* C6 as stated: with a non-empty whitelist the request passes iff its IP,
\* the x-forwarded-for value when the header is present and the connection
\* IP otherwise, is one of the entries; otherwise 403 without next.
C6_WhitelistHeaderWhenPresent ==
    (Ran("whitelistIp") /\ env.WHITELIST_IP # <<>>)
    => LET ip == IF req.xff # Undefined THEN req.xff ELSE req.ip
       IN  IF ip \in Entries(env.WHITELIST_IP) THEN PassedThrough ELSE Forbidden

\* C6 amended: with a non-empty whitelist the request passes iff its IP, the
\* x-forwarded-for value when the header is present and not empty and the
\* connection IP otherwise, is one of the entries; otherwise 403 without next.
C6_Whitelist ==
    (Ran("whitelistIp") /\ env.WHITELIST_IP # <<>>)
    => LET ip == IF req.xff # Undefined /\ req.xff # <<>> THEN req.xff ELSE req.ip
       IN  IF ip \in Entries(env.WHITELIST_IP) THEN PassedThrough ELSE Forbidden

C6_Witness ==
    /\ Ran("whitelistIp") /\ env.WHITELIST_IP = <<"1", ",", "2">>
    /\ req.xff = <<"2">> /\ req.ip = <<"1">> /\ nextCalls = 1

\* C7: skipMap answers a path ending in ".map", in any letter case, with an
\* empty body and status 200 without calling next, whatever the environment
\* and the rest of the request; any other path calls next and sends nothing.
C7_SkipMap ==
    Ran("skipMap")
    => LET n == Len(req.path)
           dotMap == {<<".", m, a, p>> : m \in {"m", "M"}, a \in {"a", "A"}, p \in {"p", "P"}}
       IN  IF n >= 4 /\ SubSeq(req.path, n - 3, n) \in dotMap
           THEN /\ res.sent = 1 /\ res.body = "" /\ res.status = 200
                /\ nextCalls = 0
           ELSE PassedThrough

C7_Witness ==
    /\ Ran("skipMap") /\ req.path = <<"/", ".", "M", "a", "p">>
    /\ env.NODE_ENV = "production" /\ env.WHITELIST_IP # <<>>
    /\ res.sent = 1

\* C9: one invocation of a middleware, wrapped in unless or not, either
\* calls next once and sends nothing, or sends one response and does not
\* call next.
C9_ContinueOrTerminate ==
    handler # NoHandler
    => \/ nextCalls = 1 /\ res.sent = 0
       \/ nextCalls = 0 /\ res.sent = 1

C9_Witness ==
    /\ Ran("unless") /\ handler.inner = "skipMap" /\ handler.paths = {<<"/">>}
    /\ res.sent = 1 /\ nextCalls = 0

=============================================================================
